---- MODULE Spec2Model ----
(***************************************************************************)
(* Boardshort Photography: the build-time Aggregator (build.js) and the    *)
(* run-time Content Processor (site.js).                                   *)
(*                                                                         *)
(* JavaScript strings that the code inspects (dates, times) are sequences  *)
(* of one-character strings, so that split, Number and localeCompare are   *)
(* computed as the code computes them.  Strings the code only copies or    *)
(* tests for truthiness (src, tag, location, weather, id) are TLA+ strings.*)
(* A field that is absent (JavaScript undefined) is the value Undefined.   *)
(***************************************************************************)
EXTENDS Integers, Sequences, FiniteSets, TLC

VARIABLES
  \* ---- build.js ----
  files,        \* content of the *.json files of content/days, in sorted name order
  fileIdx,      \* position of the `for (const file of files)` loop
  dayMap,       \* dayMap: insertion-ordered entries {date, location, images}
  warnings,     \* indices of the files console.warn reported as skipped
  output,       \* the array written to content/index.json
  bpc,          \* "loop" | "written" | "aborted" ("off": the script is not run)
  \* ---- tag derivation (deriveTag of build.js, getTag of site.js) ----
  tagImage,     \* an image object as a source file holds it
  tagBuilt,     \* normalizeImage(tagImage).tag, "pending" before the call
  tagGot,       \* getTag(tagImage.time), "pending" before the call
  tagSite,      \* the tag processDays resolves for tagImage, "pending" before
  \* ---- site.js ----
  apiKey,       \* WEATHER_API_KEY, '' when window.__WEATHER_KEY__ is not set
  spc,          \* where the init function is: "load" | "process" | "await" | "done" | "threw"
                \* ("off": the page is not loaded)
  loadOutcome,  \* how the fetch of /content/index.json ended
  raw,          \* what loadContent resolved to
  di,           \* processDays: index of the day being processed
  ii,           \* processDays: index of the image being processed
  processed,    \* processDays: the array processed
  images,       \* processDays: the array images of the current day
  weatherCache, \* weatherCache: cache key -> weather string
  pending,      \* the weather request in flight, <<>> when there is none
  netCount,     \* number of requests sent to the weather provider
  calls,        \* the fetchWeather calls that have returned, in order
  lastOutcome,  \* how the latest request to the weather provider ended
  error,        \* the exception that ended init, "" when there is none
  DAYS,
  FLAT,
  heroFlatIndex,
  thumbs,       \* the thumbnails renderTimeline made, in page order: the image each
                \* was made for (day of DAYS, place in the day) and the flatIdx of
                \* its click handler
  \* ---- week grouping (getWeekSunday and groupByWeek of site.js) ----
  wkTz,         \* UTC offset of the runtime's local time, in minutes
  wkDays,       \* the day sequence handed to groupByWeek
  wkWeeks,      \* what groupByWeek returned
  wkDate,       \* the date string handed to getWeekSunday, '' before the call
  wkSunday,     \* what getWeekSunday returned, '' before the call
  wkpc,         \* "ready" | "grouped" ("off": the functions are not called)
  \* ---- lightbox (site.js) ----
  currentFlatIndex,
  lbOpen,       \* the lightbox element has the class 'open'
  lbCall        \* the latest lightbox handler that ran: its name, the step it asked
                \* for (0 when none) and currentFlatIndex before it ran

buildVars == <<files, fileIdx, dayMap, warnings, output, bpc>>
tagVars   == <<tagImage, tagBuilt, tagGot, tagSite>>
siteVars  == <<apiKey, spc, loadOutcome, raw, di, ii, processed, images, weatherCache,
               pending, netCount, calls, lastOutcome, error, DAYS, FLAT, heroFlatIndex, thumbs>>
weekVars  == <<wkTz, wkDays, wkWeeks, wkDate, wkSunday, wkpc>>
lightVars == <<currentFlatIndex, lbOpen, lbCall>>
vars      == <<buildVars, tagVars, siteVars, weekVars, lightVars>>

----------------------------------------------------------------------------
(* JavaScript values *)

\* an absent field; no string is equal to it, every real string is a
\* sequence of one-character strings
Undefined == <<"undefined">>

\* NaN; every number the code parses here is a non-negative integer
NaN == -1

\* truthiness of a character string, and of a copied string, whose absence and
\* emptiness every use in the code (x || y, !x) treats alike: "" stands for both
Truthy(s)    == s # Undefined /\ s # <<>>
TruthyStr(s) == s # ""

\* x || ''  for a character string x
OrEmpty(s) == IF s = Undefined THEN <<>> ELSE s

Digits == {"0", "1", "2", "3", "4", "5", "6", "7", "8", "9"}

DigitVal(c) ==
  CASE c = "0" -> 0 [] c = "1" -> 1 [] c = "2" -> 2 [] c = "3" -> 3
    [] c = "4" -> 4 [] c = "5" -> 5 [] c = "6" -> 6 [] c = "7" -> 7
    [] c = "8" -> 8 [] c = "9" -> 9

\* UTF-16 code unit of a character, the order of the JavaScript operators < and <=
CodeUnit(c) ==
  CASE c = "-" -> 45 [] c = ":" -> 58 [] c \in Digits -> 48 + DigitVal(c)

\* primary collation weight of a character under String.prototype.localeCompare:
\* punctuation ("-" before ":") sorts before the digits
CollationRank(c) ==
  CASE c = "-" -> 0 [] c = ":" -> 1 [] c \in Digits -> 2 + DigitVal(c)

Sign(n) == IF n < 0 THEN -1 ELSE IF n > 0 THEN 1 ELSE 0

\* a.localeCompare(b): -1, 0 or 1
RECURSIVE LocaleCompare(_, _)
LocaleCompare(a, b) ==
  IF a = <<>> /\ b = <<>> THEN 0
  ELSE IF a = <<>> THEN -1
  ELSE IF b = <<>> THEN 1
  ELSE IF Head(a) = Head(b) THEN LocaleCompare(Tail(a), Tail(b))
  ELSE Sign(CollationRank(Head(a)) - CollationRank(Head(b)))

\* a <= b on strings (code unit order)
RECURSIVE StrLeq(_, _)
StrLeq(a, b) ==
  IF a = <<>> THEN TRUE
  ELSE IF b = <<>> THEN FALSE
  ELSE IF Head(a) = Head(b) THEN StrLeq(Tail(a), Tail(b))
  ELSE CodeUnit(Head(a)) < CodeUnit(Head(b))

\* Number(s) for a string of the alphabet: '' is 0, a digit string its decimal
\* value, anything else NaN; Number(undefined) is NaN
RECURSIVE DecimalValue(_)
DecimalValue(s) ==
  IF s = <<>> THEN 0
  ELSE 10 * DecimalValue(SubSeq(s, 1, Len(s) - 1)) + DigitVal(s[Len(s)])

ToNumber(s) ==
  IF s = Undefined THEN NaN
  ELSE IF \A i \in 1..Len(s) : s[i] \in Digits THEN DecimalValue(s)
  ELSE NaN

\* s.split(':')
RECURSIVE SplitColon(_)
SplitColon(s) ==
  IF \A i \in 1..Len(s) : s[i] # ":" THEN <<s>>
  ELSE LET k == CHOOSE i \in 1..Len(s) : s[i] = ":" /\ \A j \in 1..(i - 1) : s[j] # ":"
       IN  <<SubSeq(s, 1, k - 1)>> \o SplitColon(SubSeq(s, k + 1, Len(s)))

\* the comparison written <= : noon itself would count as morning
BeforeNoon_Inclusive(h, m) == h # NaN /\ m # NaN /\ 60 * h + m <= 12 * 60

\* (h + m / 60) < 12 ; any comparison with NaN is false
BeforeNoon(h, m) == h # NaN /\ m # NaN /\ 60 * h + m < 12 * 60

\* const [h, m] = timeStr.split(':').map(Number); h + m/60 < 12 ? sunrise : sunset
TagOfSplit(time) ==
  LET parts == SplitColon(time)
      h     == ToNumber(parts[1])
      m     == IF Len(parts) >= 2 THEN ToNumber(parts[2]) ELSE NaN
  IN  IF BeforeNoon(h, m) THEN "sunrise" ELSE "sunset"

\* build.js deriveTag
deriveTag(time) ==
  IF ~Truthy(time) THEN "sunrise" ELSE TagOfSplit(time)

\* site.js getTag: undefined.split throws a TypeError
getTag(timeStr) ==
  IF timeStr = Undefined THEN "TypeError" ELSE TagOfSplit(timeStr)

\* the tag taken from the time even when the image has one
ImageTag_AlwaysDerive(img) == getTag(img.time)

\* site.js processDays: img.tag || getTag(img.time)
ImageTag(img) == IF TruthyStr(img.tag) THEN img.tag ELSE getTag(img.time)

\* build.js normalizeImage
normalizeImage(img) ==
  [img EXCEPT !.tag = IF TruthyStr(img.tag) THEN img.tag ELSE deriveTag(img.time)]

----------------------------------------------------------------------------
(* build.js : inputs *)

MaxFiles  == 2      \* number of *.json files in content/days
MaxImages == 1      \* length of the images array of a per-day file

Date0612 == <<"2", "0", "2", "5", "-", "0", "6", "-", "1", "2">>
Date0613 == <<"2", "0", "2", "5", "-", "0", "6", "-", "1", "3">>
Date0614 == <<"2", "0", "2", "5", "-", "0", "6", "-", "1", "4">>
DateInputs == {Date0613, Date0614}

Time0547   == <<"0", "5", ":", "4", "7">>
Time1200   == <<"1", "2", ":", "0", "0">>
TimeNoSep  == <<"0", "5", "4", "7">>        \* "0547", not of the form HH:MM
TimeInputs == {Undefined, Time0547, Time1200, TimeNoSep}

IsHHMM(t) ==
  /\ t # Undefined
  /\ Len(t) = 5
  /\ t[3] = ":"
  /\ \A i \in {1, 2, 4, 5} : t[i] \in Digits
  /\ 10 * DigitVal(t[1]) + DigitVal(t[2]) <= 23
  /\ DigitVal(t[4]) <= 5

\* an image object as the files hold it; src is filled in per file below
ImageInputs ==
  {[src |-> "", date |-> Undefined, time |-> t, tag |-> "", location |-> ""] : t \in TimeInputs}

SeqsUpTo(S, n) == UNION {[1..k -> S] : k \in 0..n}

\* the script at the head of its file loop, dayMap empty, nothing written yet.
\* What JSON.parse makes of a file: parsed = FALSE when it throws
\* is_hero and hero_index are the legacy flags of a per-day file (hero_index
\* is 0-based, -1 when the file has none)
Unparseable ==
  [parsed |-> FALSE, src |-> "", date |-> Undefined, time |-> Undefined, tag |-> "",
   location |-> "", isArray |-> FALSE, images |-> <<>>, is_hero |-> FALSE, hero_index |-> -1]
Sidecar(d, im) ==
  [parsed |-> TRUE, src |-> "s", date |-> d, time |-> im.time, tag |-> im.tag,
   location |-> im.location, isArray |-> FALSE, images |-> <<>>, is_hero |-> FALSE,
   hero_index |-> -1]
PerDay(d, ims) ==
  [parsed |-> TRUE, src |-> "", date |-> d, time |-> Undefined, tag |-> "",
   location |-> "", isArray |-> TRUE, images |-> ims, is_hero |-> FALSE, hero_index |-> -1]
\* a per-day file that names its image k as the hero
PerDayHero(d, ims, k) ==
  [parsed |-> TRUE, src |-> "", date |-> d, time |-> Undefined, tag |-> "",
   location |-> "", isArray |-> TRUE, images |-> ims, is_hero |-> TRUE, hero_index |-> k]
\* valid JSON that has neither a src nor an images array
OtherJson(d) ==
  [parsed |-> TRUE, src |-> "", date |-> d, time |-> Undefined, tag |-> "",
   location |-> "", isArray |-> FALSE, images |-> <<>>, is_hero |-> FALSE, hero_index |-> -1]

FileInputs ==
  {Unparseable, OtherJson(Date0614)}
  \cup {Sidecar(d, im) : d \in DateInputs, im \in ImageInputs}
  \cup {PerDay(d, ims) : d \in DateInputs, ims \in SeqsUpTo(ImageInputs, MaxImages)}
  \cup {Sidecar(Undefined, im) : im \in {i \in ImageInputs : i.time = Time0547}}
  \cup {PerDay(Undefined, <<im>>) : im \in {i \in ImageInputs : i.time = Time0547}}
  \cup {PerDayHero(Date0614, <<im>>, 0) : im \in {i \in ImageInputs : i.time = Time0547}}

\* every media asset has its own path: file i, image k
SrcOf(i, k) == "f" \o ToString(i) \o "-" \o ToString(k)

WithSrc(i, f) ==
  [f EXCEPT !.src    = IF f.src = "" THEN "" ELSE SrcOf(i, 0),
            !.images = [k \in 1..Len(f.images) |-> [f.images[k] EXCEPT !.src = SrcOf(i, k)]]]

----------------------------------------------------------------------------
(* build.js : the file loop, the two sorts and the write *)

HasDay(dm, date) == \E i \in 1..Len(dm) : dm[i].date = date
DayIndex(dm, date) == CHOOSE i \in 1..Len(dm) : dm[i].date = date

\* the entry assigned without the !dayMap[date] test: a later file of the same
\* date starts the day's images afresh
EnsureDay_Overwrite(dm, date, location) ==
  IF HasDay(dm, date)
    THEN [dm EXCEPT ![DayIndex(dm, date)] = [date |-> date, location |-> location, images |-> <<>>]]
    ELSE Append(dm, [date |-> date, location |-> location, images |-> <<>>])

\* if (!dayMap[date]) dayMap[date] = { date, location: data.location || '', images: [] }
EnsureDay(dm, date, location) ==
  IF HasDay(dm, date) THEN dm
  ELSE Append(dm, [date |-> date, location |-> location, images |-> <<>>])

\* dayMap[date].images.push(img)
PushImage(dm, date, img) ==
  [dm EXCEPT ![DayIndex(dm, date)].images = Append(@, img)]

\* data.images.forEach(img => dayMap[date].images.push(normalizeImage(img)))
RECURSIVE PushAll(_, _, _)
PushAll(dm, date, imgs) ==
  IF imgs = <<>> THEN dm
  ELSE PushAll(PushImage(dm, date, normalizeImage(Head(imgs))), date, Tail(imgs))

\* the fields of a sidecar object that normalizeImage spreads into the image
SidecarImage(data) ==
  [src |-> data.src, date |-> data.date, time |-> data.time, tag |-> data.tag,
   location |-> data.location]

\* the loop body without its try/catch: a file that is not JSON ends the run
FileLoopBody_NoCatch(dm, data) ==
  IF ~data.parsed
    THEN [dayMap |-> dm, warned |-> FALSE, thrown |-> TRUE]
  ELSE IF TruthyStr(data.src) /\ Truthy(data.date)
    THEN [dayMap |-> PushImage(EnsureDay(dm, data.date, data.location),
                               data.date, normalizeImage(SidecarImage(data))),
          warned |-> FALSE, thrown |-> FALSE]
  ELSE IF ~TruthyStr(data.src) /\ data.isArray /\ Truthy(data.date)
    THEN [dayMap |-> PushAll(EnsureDay(dm, data.date, data.location), data.date, data.images),
          warned |-> FALSE, thrown |-> FALSE]
  ELSE [dayMap |-> dm, warned |-> TRUE, thrown |-> FALSE]

\* one iteration of `for (const file of files)`: the new dayMap, whether the
\* file was skipped with a warning, and whether an exception left the loop
FileLoopBody(dm, data) ==
  IF ~data.parsed
    THEN [dayMap |-> dm, warned |-> TRUE, thrown |-> FALSE]       \* catch (e)
  ELSE IF TruthyStr(data.src)
    THEN IF ~Truthy(data.date)
           THEN [dayMap |-> dm, warned |-> TRUE, thrown |-> FALSE]
           ELSE [dayMap |-> PushImage(EnsureDay(dm, data.date, data.location),
                                      data.date, normalizeImage(SidecarImage(data))),
                 warned |-> FALSE, thrown |-> FALSE]
  ELSE IF data.isArray
    THEN IF ~Truthy(data.date)
           THEN [dayMap |-> dm, warned |-> TRUE, thrown |-> FALSE]
           ELSE [dayMap |-> PushAll(EnsureDay(dm, data.date, data.location),
                                    data.date, data.images),
                 warned |-> FALSE, thrown |-> FALSE]
  ELSE [dayMap |-> dm, warned |-> TRUE, thrown |-> FALSE]

\* the comparator with its operands exchanged: latest image first
CompareTime_Reversed(a, b) == LocaleCompare(OrEmpty(b.time), OrEmpty(a.time))

\* (a.time || '').localeCompare(b.time || '')
CompareTime(a, b) == LocaleCompare(OrEmpty(a.time), OrEmpty(b.time))

\* the comparator with its operands exchanged: oldest day first
CompareDateDesc_Ascending(a, b) == LocaleCompare(a.date, b.date)

\* b.date.localeCompare(a.date)
CompareDateDesc(a, b) == LocaleCompare(b.date, a.date)

\* Array.prototype.sort is stable: x goes behind every element not after it
RECURSIVE InsertByTime(_, _)
InsertByTime(s, x) ==
  IF s = <<>> THEN <<x>>
  ELSE IF CompareTime(s[Len(s)], x) <= 0 THEN Append(s, x)
  ELSE Append(InsertByTime(SubSeq(s, 1, Len(s) - 1), x), s[Len(s)])

RECURSIVE SortImages(_)
SortImages(s) ==
  IF s = <<>> THEN <<>>
  ELSE InsertByTime(SortImages(SubSeq(s, 1, Len(s) - 1)), s[Len(s)])

RECURSIVE InsertByDate(_, _)
InsertByDate(s, x) ==
  IF s = <<>> THEN <<x>>
  ELSE IF CompareDateDesc(s[Len(s)], x) <= 0 THEN Append(s, x)
  ELSE Append(InsertByDate(SubSeq(s, 1, Len(s) - 1), x), s[Len(s)])

RECURSIVE SortDays(_)
SortDays(s) ==
  IF s = <<>> THEN <<>>
  ELSE InsertByDate(SortDays(SubSeq(s, 1, Len(s) - 1)), s[Len(s)])

\* lines 589-595: sort each day's images, then the days
SortedDays(dm) ==
  SortDays([i \in 1..Len(dm) |-> [dm[i] EXCEPT !.images = SortImages(@)]])

ProcessFile ==
  /\ bpc = "loop"
  /\ fileIdx <= Len(files)
  /\ LET r == FileLoopBody(dayMap, files[fileIdx])
     IN  /\ dayMap' = r.dayMap
         /\ warnings' = IF r.warned THEN warnings \cup {fileIdx} ELSE warnings
         /\ bpc' = IF r.thrown THEN "aborted" ELSE "loop"
  /\ fileIdx' = fileIdx + 1
  /\ UNCHANGED <<files, output, tagVars, siteVars, weekVars, lightVars>>

\* after the loop: both sorts and fs.writeFileSync(OUTPUT, ...)
WriteOutput ==
  /\ bpc = "loop"
  /\ fileIdx > Len(files)
  /\ output' = SortedDays(dayMap)
  /\ bpc' = "written"
  /\ UNCHANGED <<files, fileIdx, dayMap, warnings, tagVars, siteVars, weekVars, lightVars>>

InitBuild ==
  /\ \E n \in 0..MaxFiles : \E f \in [1..n -> FileInputs] :
        files = [i \in 1..n |-> WithSrc(i, f[i])]
  /\ fileIdx = 1
  /\ dayMap = <<>>
  /\ warnings = {}
  /\ output = <<>>
  /\ bpc = "loop"

IdleTag ==
  /\ tagImage = [src |-> "", date |-> Undefined, time |-> Undefined, tag |-> "", location |-> ""]
  /\ tagBuilt = "off"
  /\ tagGot = "off"
  /\ tagSite = "off"

\* the page is not loaded
IdleSite ==
  /\ apiKey = ""
  /\ spc = "off"
  /\ loadOutcome = "pending"
  /\ raw = <<>>
  /\ di = 1
  /\ ii = 1
  /\ processed = <<>>
  /\ images = <<>>
  /\ weatherCache = <<>>
  /\ pending = <<>>
  /\ netCount = 0
  /\ calls = <<>>
  /\ lastOutcome = "none"
  /\ error = ""
  /\ DAYS = <<>>
  /\ FLAT = <<>>
  /\ heroFlatIndex = 0
  /\ thumbs = <<>>

\* groupByWeek and getWeekSunday are not called
IdleWeek ==
  /\ wkTz = 0
  /\ wkDays = <<>>
  /\ wkWeeks = <<>>
  /\ wkDate = <<>>
  /\ wkSunday = <<>>
  /\ wkpc = "off"

\* let currentFlatIndex = 0; the lightbox is closed and no handler has run
IdleLight ==
  /\ currentFlatIndex = 0
  /\ lbOpen = FALSE
  /\ lbCall = [op |-> "none", dir |-> 0, before |-> 0]

Init == InitBuild /\ IdleTag /\ IdleSite /\ IdleWeek /\ IdleLight

Next == ProcessFile \/ WriteOutput

Spec == Init /\ [][Next]_vars

----------------------------------------------------------------------------
(* Tag derivation on its own: normalizeImage (build.js) and getTag (site.js)
   applied to one image *)

DigitChar(n) == CHOOSE c \in Digits : DigitVal(c) = n

\* HH:MM of hour h and minute m, both zero-padded to two digits
FormatHHMM(h, m) ==
  <<DigitChar(h \div 10), DigitChar(h % 10), ":", DigitChar(m \div 10), DigitChar(m % 10)>>

ClockTimes == {FormatHHMM(h, m) : h \in 0..23, m \in 0..59}

\* times that are not HH:MM: absent, '', '0547', '5', '05:', ':47', '5:47', 'noon'
OddTimes ==
  {Undefined, <<>>, TimeNoSep, <<"5">>, <<"0", "5", ":">>, <<":", "4", "7">>,
   <<"5", ":", "4", "7">>, <<"n", "o", "o", "n">>}

TagInputs == {"", "sunrise", "sunset"}

IdleBuild ==
  /\ files = <<>>
  /\ fileIdx = 1
  /\ dayMap = <<>>
  /\ warnings = {}
  /\ output = <<>>
  /\ bpc = "off"

InitTag ==
  /\ \E t \in ClockTimes \cup OddTimes : \E g \in TagInputs :
        tagImage = [src |-> "a.jpg", date |-> Undefined, time |-> t, tag |-> g, location |-> ""]
  /\ tagBuilt = "pending"
  /\ tagGot = "pending"
  /\ tagSite = "pending"
  /\ IdleBuild
  /\ IdleSite
  /\ IdleWeek
  /\ IdleLight

NormalizeOne ==
  /\ tagBuilt = "pending"
  /\ tagBuilt' = normalizeImage(tagImage).tag
  /\ UNCHANGED <<tagImage, tagGot, tagSite, buildVars, siteVars, weekVars, lightVars>>

GetTagOne ==
  /\ tagGot = "pending"
  /\ tagGot' = getTag(tagImage.time)
  /\ UNCHANGED <<tagImage, tagBuilt, tagSite, buildVars, siteVars, weekVars, lightVars>>

\* const tag = img.tag || getTag(img.time)
ResolveTagOne ==
  /\ tagSite = "pending"
  /\ tagSite' = ImageTag(tagImage)
  /\ UNCHANGED <<tagImage, tagBuilt, tagGot, buildVars, siteVars, weekVars, lightVars>>

NextTag == NormalizeOne \/ GetTagOne \/ ResolveTagOne

SpecTag == InitTag /\ [][NextTag]_vars

----------------------------------------------------------------------------
(* site.js : configuration, weather, content loading *)

\* Coordinates are integers, in units of 0.0001 degree; 0 stands for an
\* absent lat or lng, which `day.lat || DEFAULT_LAT` treats alike.
DEFAULT_LAT == 327157
DEFAULT_LNG == -1171611

\* the dash put in place of a weather that could not be resolved (U+2014 in the source)
Placeholder == "--"

DefaultLocation == "San Diego, CA"

\* null and '' : fetchWeather resolves to null, and every reader of a weather
\* value tests it with || or !
Null == ""

\* Math.round(x * 10) for x = v / 10000: the nearest integer, halves upwards
RoundTimes10(v) == (v + 500) \div 1000

\* `${date}-${Math.round(lat * 10)}-${Math.round(lng * 10)}`
cacheKey(date, lat, lng) == <<date, RoundTimes10(lat), RoundTimes10(lng)>>

\* Math.round of a value given in tenths
RoundTenths(t) == (t + 5) \div 10

\* degreesToCardinal, for deg >= 0; -1 stands for an absent wind_deg
degreesToCardinal(deg) ==
  IF deg = -1 THEN ""
  ELSE <<"N", "NE", "E", "SE", "S", "SW", "W", "NW">>[(((2 * deg + 45) \div 90) % 8) + 1]

\* desc.charAt(0).toUpperCase() + desc.slice(1), for the descriptions of WeatherData
Capitalize(desc) ==
  CASE desc = "clear sky" -> "Clear sky"
    [] desc = "fog"       -> "Fog"
    [] desc = ""          -> ""

\* formatWeather; the degree sign and the middle dots of the source are written F and .
formatWeather(w) ==
  ToString(RoundTenths(w.temp)) \o "F . " \o Capitalize(w.description) \o " . Wind "
    \o degreesToCardinal(w.wind_deg) \o " " \o ToString(RoundTenths(w.wind_speed)) \o "mph"

\* data.data[0] of a provider response; temp and wind_speed in tenths
WeatherData ==
  {[temp |-> 576, description |-> "clear sky", wind_speed |-> 62, wind_deg |-> 225],
   [temp |-> 554, description |-> "fog", wind_speed |-> 80, wind_deg |-> 270]}

\* how a request to the provider can end: a response with a first data point,
\* fetch throwing, a status that is not ok, a body without data[0]
FetchFailures == {"networkError", "notOk", "noData"}

\* the cache replaced by one that holds the new entry alone
CacheStore_OnlyLatest(cache, key, result) == [k \in {key} |-> result]

\* weatherCache[cacheKey] = result
CacheStore(cache, key, result) ==
  [k \in (DOMAIN cache) \cup {key} |-> IF k = key THEN result ELSE cache[k]]

\* if (weatherCache[cacheKey]) return weatherCache[cacheKey]
CacheHit(cache, key) == key \in DOMAIN cache /\ TruthyStr(cache[key])

DemoImage(id, h, m, weather, tag) ==
  [id |-> <<id>>, time |-> FormatHHMM(h, m), tag |-> tag, weather |-> weather, location |-> ""]

\* getDemoData (src, type and caption, which the code only copies, are left out)
getDemoData ==
  << [date |-> Date0614, is_hero |-> TRUE, hero_index |-> 2,
      location |-> "Torrey Pines, San Diego", lat |-> 329184, lng |-> -1172536,
      images |-> << DemoImage("s1", 5, 47, "58F . Clear . Wind SW 6mph", "sunrise"),
                    DemoImage("s2", 5, 53, "59F . Clear . Wind SW 6mph", "sunrise"),
                    DemoImage("s3", 6, 1, "60F . Clear", "sunrise"),
                    DemoImage("s4", 6, 14, "61F . Clear", "sunrise"),
                    DemoImage("s5", 6, 28, "62F . Partly cloudy", "sunrise"),
                    DemoImage("u1", 20, 11, "68F . Clear . Wind NW 12mph", "sunset"),
                    DemoImage("u2", 20, 34, "65F . Clear", "sunset"),
                    DemoImage("u3", 20, 39, "64F . Clear", "sunset") >>],
     [date |-> Date0613, is_hero |-> FALSE, hero_index |-> -1,
      location |-> "La Jolla Cove, San Diego", lat |-> 328509, lng |-> -1172719,
      images |-> << DemoImage("a1", 6, 2, "55F . Fog . Wind W 8mph", "sunrise"),
                    DemoImage("a2", 6, 18, "56F . Fog clearing", "sunrise"),
                    DemoImage("b1", 19, 58, "64F . Clear . Wind NW 10mph", "sunset"),
                    DemoImage("b2", 20, 5, "63F . Clear", "sunset"),
                    DemoImage("b3", 20, 39, "61F . Clear", "sunset") >>],
     [date |-> Date0612, is_hero |-> FALSE, hero_index |-> -1,
      location |-> "Ocean Beach, San Diego", lat |-> 327484, lng |-> -1172503,
      images |-> << DemoImage("c1", 5, 51, "52F . Clear . Wind calm", "sunrise"),
                    DemoImage("c2", 6, 8, "54F . Clear", "sunrise"),
                    DemoImage("d1", 20, 28, "61F . Breezy . Wind NW 18mph", "sunset") >>] >>

\* how the fetch of /content/index.json can end: a 2xx response with a JSON
\* body, fetch throwing, a status that is not ok, a body that is not JSON
LoadFailures == {"networkError", "notOk", "badJson"}

\* loadContent testing nothing but the parse: a response that is not ok
\* is taken for the content
loadContent_NoStatusCheck(outcome, body) ==
  IF outcome \in {"ok", "notOk"}
    THEN [value |-> body, thrown |-> FALSE]
    ELSE [value |-> getDemoData, thrown |-> FALSE]

\* loadContent: the value it resolves to, and whether an exception leaves it
loadContent(outcome, body) ==
  IF outcome = "ok"
    THEN [value |-> body, thrown |-> FALSE]
    ELSE [value |-> getDemoData, thrown |-> FALSE]          \* catch (e) { return getDemoData() }

----------------------------------------------------------------------------
(* site.js : week grouping *)

\* s.split('-')
RECURSIVE SplitDash(_)
SplitDash(s) ==
  IF \A i \in 1..Len(s) : s[i] # "-" THEN <<s>>
  ELSE LET k == CHOOSE i \in 1..Len(s) : s[i] = "-" /\ \A j \in 1..(i - 1) : s[j] # "-"
       IN  <<SubSeq(s, 1, k - 1)>> \o SplitDash(SubSeq(s, k + 1, Len(s)))

\* the day number (days since 1970-01-01) of the calendar date y-m-d, which
\* is what new Date(y, m - 1, d) counts in the local time zone
DaysFromCivil(y, m, d) ==
  LET yy  == IF m <= 2 THEN y - 1 ELSE y
      era == yy \div 400
      yoe == yy - era * 400
      mp  == IF m > 2 THEN m - 3 ELSE m + 9
      doy == (153 * mp + 2) \div 5 + d - 1
      doe == yoe * 365 + yoe \div 4 - yoe \div 100 + doy
  IN  era * 146097 + doe - 719468

\* the calendar date <<y, m, d>> of a day number
CivilFromDays(n) ==
  LET z   == n + 719468
      era == z \div 146097
      doe == z - era * 146097
      yoe == (doe - doe \div 1460 + doe \div 36524 - doe \div 146096) \div 365
      doy == doe - (365 * yoe + yoe \div 4 - yoe \div 100)
      mp  == (5 * doy + 2) \div 153
      d   == doy - (153 * mp + 2) \div 5 + 1
      m   == IF mp < 10 THEN mp + 3 ELSE mp - 9
  IN  <<IF m <= 2 THEN yoe + era * 400 + 1 ELSE yoe + era * 400, m, d>>

\* Date.prototype.getDay of a day number: 0 = Sunday (1970-01-01 was a Thursday)
GetDay(n) == (n + 4) % 7

DecimalDigits == <<"0", "1", "2", "3", "4", "5", "6", "7", "8", "9">>

\* YYYY-MM-DD, the first ten characters of toISOString
FormatDate(ymd) ==
  <<DecimalDigits[(ymd[1] \div 1000) + 1], DecimalDigits[((ymd[1] \div 100) % 10) + 1],
    DecimalDigits[((ymd[1] \div 10) % 10) + 1], DecimalDigits[(ymd[1] % 10) + 1], "-",
    DecimalDigits[(ymd[2] \div 10) + 1], DecimalDigits[(ymd[2] % 10) + 1], "-",
    DecimalDigits[(ymd[3] \div 10) + 1], DecimalDigits[(ymd[3] % 10) + 1]>>

MinutesPerDay == 1440

\* getWeekSunday in a runtime whose local time is tz minutes ahead of UTC:
\* the date is built and moved back to its Sunday in local time, at local
\* midnight, and toISOString prints the UTC date of that instant
getWeekSunday(dateStr, tz) ==
  LET parts   == SplitDash(dateStr)
      y       == ToNumber(parts[1])
      m       == ToNumber(parts[2])
      d       == ToNumber(parts[3])
      date    == DaysFromCivil(y, m, d)                 \* new Date(y, m - 1, d)
      day     == GetDay(date)                           \* date.getDay()
      sunday  == date - day                             \* date.setDate(date.getDate() - day)
      instant == sunday * MinutesPerDay - tz            \* local midnight, in minutes UTC
  IN  FormatDate(CivilFromDays(instant \div MinutesPerDay))

HasWeek(weeks, key) == \E w \in 1..Len(weeks) : weeks[w].sunday = key
WeekIndex(weeks, key) == CHOOSE w \in 1..Len(weeks) : weeks[w].sunday = key

\* days.forEach(day => { ... }) of groupByWeek, from day i on; a bucket holds
\* its days by reference, which is their position in `days`
RECURSIVE GroupFrom(_, _, _, _)
GroupFrom(days, tz, i, weeks) ==
  IF i > Len(days) THEN weeks
  ELSE LET key == getWeekSunday(days[i].date, tz)
       IN  IF HasWeek(weeks, key)
             THEN GroupFrom(days, tz, i + 1,
                            [weeks EXCEPT ![WeekIndex(weeks, key)].days = Append(@, i)])
             ELSE GroupFrom(days, tz, i + 1, Append(weeks, [sunday |-> key, days |-> <<i>>]))

\* b.sunday.localeCompare(a.sunday)
CompareWeekDesc(a, b) == LocaleCompare(b.sunday, a.sunday)

RECURSIVE InsertByWeek(_, _)
InsertByWeek(s, x) ==
  IF s = <<>> THEN <<x>>
  ELSE IF CompareWeekDesc(s[Len(s)], x) <= 0 THEN Append(s, x)
  ELSE Append(InsertByWeek(SubSeq(s, 1, Len(s) - 1), x), s[Len(s)])

RECURSIVE SortWeeks(_)
SortWeeks(s) ==
  IF s = <<>> THEN <<>>
  ELSE InsertByWeek(SortWeeks(SubSeq(s, 1, Len(s) - 1)), s[Len(s)])

\* the buckets left in the order of their creation, without the sort
groupByWeek_NoSort(days, tz) == GroupFrom(days, tz, 1, <<>>)

\* groupByWeek
groupByWeek(days, tz) == SortWeeks(GroupFrom(days, tz, 1, <<>>))

\* UTC offsets of the runtime, in minutes: Pacific standard and daylight
\* time, UTC, Central European time, India
TzOffsets == {-480, -420, 0, 60, 330}

MaxWeekDays == 3      \* length of the day sequence handed to groupByWeek

\* Sunday 8 June 2025, the Saturday and the Sunday after it, and two days of
\* the week of Sunday 28 December 2025, one in each year
WeekDayInputs ==
  {[date |-> FormatDate(ymd)] :
     ymd \in {<<2025, 6, 8>>, <<2025, 6, 14>>, <<2025, 6, 15>>, <<2025, 12, 31>>, <<2026, 1, 3>>}}

\* two whole weeks of June 2025, the turn of the year, and the end of February
\* of a leap year
WeekDateInputs ==
  {FormatDate(<<2025, 6, d>>) : d \in 8..21}
  \cup {FormatDate(ymd) : ymd \in {<<2025, 12, 28>>, <<2025, 12, 31>>, <<2026, 1, 1>>, <<2026, 1, 3>>,
                                   <<2024, 2, 29>>, <<2024, 3, 1>>, <<2024, 3, 2>>, <<2024, 3, 3>>}}

InitWeek ==
  /\ wkTz \in TzOffsets
  /\ wkDays \in SeqsUpTo(WeekDayInputs, MaxWeekDays)
  /\ wkWeeks = <<>>
  /\ wkDate = <<>>
  /\ wkSunday = <<>>
  /\ wkpc = "ready"
  /\ IdleBuild
  /\ IdleTag
  /\ IdleSite
  /\ IdleLight

\* const weeks = groupByWeek(days)
GroupDays ==
  /\ wkpc = "ready"
  /\ wkWeeks' = groupByWeek(wkDays, wkTz)
  /\ wkpc' = "grouped"
  /\ UNCHANGED <<wkTz, wkDays, wkDate, wkSunday, buildVars, tagVars, siteVars, lightVars>>

\* getWeekSunday(dateStr)
WeekSundayOf ==
  /\ wkpc # "off"
  /\ wkDate = <<>>
  /\ \E dateStr \in WeekDateInputs :
        /\ wkDate' = dateStr
        /\ wkSunday' = getWeekSunday(dateStr, wkTz)
  /\ UNCHANGED <<wkTz, wkDays, wkWeeks, wkpc, buildVars, tagVars, siteVars, lightVars>>

NextWeek == GroupDays \/ WeekSundayOf

SpecWeek == InitWeek /\ [][NextWeek]_vars

----------------------------------------------------------------------------
(* site.js : inputs *)

MaxDays       == 2      \* days in the fetched content/index.json
MaxSiteImages == 2      \* images in it, over all its days

Time2011 == FormatHHMM(20, 11)

\* the image objects of a fetched index.json: one to tag and to look the
\* weather up for, one that has its weather and its own location but no id,
\* one with an explicit tag, one with neither time nor tag
SiteImageInputs ==
  {[id |-> <<"given">>, time |-> Time0547, tag |-> "", weather |-> "", location |-> ""],
   [id |-> <<>>, time |-> Time2011, tag |-> "", weather |-> "64F . Clear",
    location |-> "Sunset Cliffs"],
   [id |-> <<"given">>, time |-> Time0547, tag |-> "sunset", weather |-> "", location |-> ""],
   [id |-> <<"given">>, time |-> Undefined, tag |-> "", weather |-> "", location |-> ""]}

\* date, place and hero flags of a day: two places on one date whose
\* coordinates agree to one decimal, and a day without coordinates
DayHeads ==
  {[date |-> Date0614, is_hero |-> FALSE, hero_index |-> -1, location |-> "Torrey Pines",
    lat |-> 329184, lng |-> -1172536, images |-> <<>>],
   [date |-> Date0614, is_hero |-> FALSE, hero_index |-> -1, location |-> "Black's Beach",
    lat |-> 328800, lng |-> -1172530, images |-> <<>>],
   [date |-> Date0613, is_hero |-> FALSE, hero_index |-> -1, location |-> "",
    lat |-> 0, lng |-> 0, images |-> <<>>]}

RECURSIVE SumTo(_, _)
SumTo(f, n) == IF n = 0 THEN 0 ELSE f[n] + SumTo(f, n - 1)

\* the list imgs dealt out to n days of the given sizes; an author-supplied
\* id is made the image's own by its position
DealImages(heads, sizes, imgs) ==
  [d \in 1..Len(heads) |->
     [heads[d] EXCEPT !.images =
        [k \in 1..sizes[d] |->
           LET img == imgs[SumTo(sizes, d - 1) + k]
           IN  [img EXCEPT !.id = IF img.id = <<>> THEN <<>>
                                  ELSE <<"i" \o ToString(d) \o "-" \o ToString(k)>>]]]]

\* the ways to deal k images out to n days
Dealings(n, k) == {z \in [1..n -> 0..k] : SumTo(z, n) = k}

\* Math.random().toString(36).slice(2, 6)
RandomSuffixes == {"k3x9", "q07z"}

----------------------------------------------------------------------------
(* site.js : fetchWeather, processDays and init *)

\* fetchWeather up to `await fetch(url)`: it returns at once without a key
\* and on a cache hit, and sends a request otherwise
fetchWeatherStart(key, cache, date, lat, lng) ==
  IF ~TruthyStr(key) THEN [kind |-> "return", how |-> "noKey", value |-> Null]
  ELSE IF CacheHit(cache, cacheKey(date, lat, lng))
    THEN [kind |-> "return", how |-> "hit", value |-> cache[cacheKey(date, lat, lng)]]
  ELSE [kind |-> "fetch", how |-> "miss", value |-> Null]

\* the result returned without `weatherCache[cacheKey] = result`
fetchWeatherResume_NoStore(cache, key, outcome, w) ==
  IF outcome = "ok"
    THEN [result |-> formatWeather(w), cache |-> cache, thrown |-> FALSE]
    ELSE [result |-> Null, cache |-> cache, thrown |-> FALSE]

\* the body without its try/catch: a failed request rejects the call
fetchWeatherResume_NoCatch(cache, key, outcome, w) ==
  IF outcome = "ok"
    THEN [result |-> formatWeather(w), cache |-> CacheStore(cache, key, formatWeather(w)),
          thrown |-> FALSE]
    ELSE [result |-> Null, cache |-> cache, thrown |-> TRUE]

\* fetchWeather from the response on: the value it resolves to, the cache it
\* leaves, and whether an exception leaves it
fetchWeatherResume(cache, key, outcome, w) ==
  IF outcome = "ok"
    THEN [result |-> formatWeather(w), cache |-> CacheStore(cache, key, formatWeather(w)),
          thrown |-> FALSE]
    ELSE [result |-> Null, cache |-> cache, thrown |-> FALSE]   \* catch (e) { return null }

\* the object pushed with `weather` as it is, without `|| placeholder`
ProcessedImage_NoPlaceholder(day, img, tag, weather, suffix) ==
  [img EXCEPT !.id       = IF img.id # <<>> THEN img.id ELSE <<day.date, img.time, suffix>>,
              !.tag      = tag,
              !.weather  = weather,
              !.location = IF TruthyStr(day.location) THEN day.location ELSE DefaultLocation]

\* the object processDays pushes for img
ProcessedImage(day, img, tag, weather, suffix) ==
  [img EXCEPT !.id       = IF img.id # <<>> THEN img.id ELSE <<day.date, img.time, suffix>>,
              !.tag      = tag,
              !.weather  = IF TruthyStr(weather) THEN weather ELSE Placeholder,
              !.location = IF TruthyStr(day.location) THEN day.location ELSE DefaultLocation]

\* the test without `!weather`: a weather is looked up for every image
NeedsWeather_Always(img, key) == TruthyStr(key)

\* if (!weather && WEATHER_API_KEY)
NeedsWeather(img, key) == ~TruthyStr(img.weather) /\ TruthyStr(key)

SuffixChoices(img) == IF img.id = <<>> THEN RandomSuffixes ELSE {""}

DayLat(day) == IF day.lat # 0 THEN day.lat ELSE DEFAULT_LAT
DayLng(day) == IF day.lng # 0 THEN day.lng ELSE DEFAULT_LNG

CallRecord(day, how, requested, result) ==
  [di |-> di, ii |-> ii, date |-> day.date, lat |-> DayLat(day), lng |-> DayLng(day),
   how |-> how, requested |-> requested, result |-> result]

\* the days taken last to first
RECURSIVE Flatten_Reversed(_)
Flatten_Reversed(days) ==
  IF days = <<>> THEN <<>> ELSE Flatten_Reversed(Tail(days)) \o Head(days).images

\* FLAT = []; DAYS.forEach(day => day.images.forEach(img => FLAT.push(img)))
RECURSIVE Flatten(_)
Flatten(days) == IF days = <<>> THEN <<>> ELSE Head(days).images \o Flatten(Tail(days))

\* FLAT.findIndex(f => f.id === id): 0-based, -1 when no element has the id
FindIndex(flat, id) ==
  IF \E i \in 1..Len(flat) : flat[i].id = id
    THEN (CHOOSE i \in 1..Len(flat) :
            flat[i].id = id /\ \A j \in 1..(i - 1) : flat[j].id # id) - 1
    ELSE -1

\* d.is_hero: undefined, which is falsy, for a day that has no such property
IsHero(day) == "is_hero" \in DOMAIN day /\ day.is_hero

\* DAYS.find(d => d.is_hero), as a place in DAYS; 0 when find returns undefined
FindHeroDay(days) ==
  IF \E d \in 1..Len(days) : IsHero(days[d])
    THEN CHOOSE d \in 1..Len(days) : IsHero(days[d]) /\ \A e \in 1..(d - 1) : ~IsHero(days[e])
    ELSE 0

\* renderHero: the value it leaves in heroFlatIndex (hero_index is 0-based,
\* -1 when the day has none)
renderHero(days, flat, prev) ==
  IF FindHeroDay(days) = 0 THEN prev                             \* if (!heroDay) return
  ELSE LET heroDay == days[FindHeroDay(days)]
           k       == heroDay.hero_index
       IN  IF heroDay.images = <<>> THEN prev                    \* if (!img) return
           ELSE FindIndex(flat, IF k >= 0 /\ k < Len(heroDay.images)
                                  THEN heroDay.images[k + 1].id
                                  ELSE heroDay.images[1].id)

\* makeThumb: the flatIdx its click handler captures
makeThumb(flat, img) == FindIndex(flat, img.id)

\* day.images.filter(i => i.tag === tag), as places in the day
TaggedPlaces(day, tag) ==
  LET Has(k) == day.images[k].tag = tag
  IN  SelectSeq([k \in 1..Len(day.images) |-> k], Has)

\* the thumbnails of one contact strip: the sunrise cluster, then the sunset cluster
StripThumbs(days, flat, d) ==
  LET places == TaggedPlaces(days[d], "sunrise") \o TaggedPlaces(days[d], "sunset")
  IN  [n \in 1..Len(places) |->
         [day |-> d, place |-> places[n], flatIdx |-> makeThumb(flat, days[d].images[places[n]])]]

\* week.days.forEach(day => ...)
RECURSIVE WeekThumbs(_, _, _)
WeekThumbs(days, flat, ds) ==
  IF ds = <<>> THEN <<>>
  ELSE StripThumbs(days, flat, Head(ds)) \o WeekThumbs(days, flat, Tail(ds))

\* weeks.forEach(week => ...)
RECURSIVE TimelineThumbs(_, _, _)
TimelineThumbs(days, flat, weeks) ==
  IF weeks = <<>> THEN <<>>
  ELSE WeekThumbs(days, flat, Head(weeks).days) \o TimelineThumbs(days, flat, Tail(weeks))

\* renderTimeline: the thumbnails it puts on the page
renderTimeline(days, flat, tz) ==
  IF days = <<>> THEN <<>>
  ELSE TimelineThumbs(days, flat, groupByWeek(days, tz))

InitSite ==
  /\ apiKey \in {"", "owm-key"}
  /\ spc = "load"
  /\ loadOutcome = "pending"
  /\ raw = <<>>
  /\ di = 1
  /\ ii = 1
  /\ processed = <<>>
  /\ images = <<>>
  /\ weatherCache = <<>>
  /\ pending = <<>>
  /\ netCount = 0
  /\ calls = <<>>
  /\ lastOutcome = "none"
  /\ error = ""
  /\ DAYS = <<>>
  /\ FLAT = <<>>
  /\ heroFlatIndex = 0
  /\ thumbs = <<>>
  /\ IdleBuild
  /\ IdleTag
  /\ IdleWeek
  /\ IdleLight

\* processDays between two images: a day whose images are all pushed is
\* pushed itself (the label, which only the page shows, is left out) and the
\* next day begun
RECURSIVE Settle(_, _)
Settle(days, st) ==
  IF st.di <= Len(days) /\ st.ii > Len(days[st.di].images)
    THEN Settle(days, [di |-> st.di + 1, ii |-> 1, images |-> <<>>,
                       processed |-> Append(st.processed,
                                            [days[st.di] EXCEPT !.images = st.images])])
    ELSE st

\* the init function runs on to the next image or, once processDays has
\* returned, sorts DAYS, builds FLAT and renders the hero and the timeline
Continue(days, st) ==
  LET to == Settle(days, st)
  IN  /\ di' = to.di
      /\ ii' = to.ii
      /\ images' = to.images
      /\ processed' = to.processed
      /\ IF to.di > Len(days)
           THEN LET sorted == SortDays(to.processed)
                    flat   == Flatten(sorted)
                IN  /\ spc' = "done"
                    /\ DAYS' = sorted
                    /\ FLAT' = flat
                    /\ heroFlatIndex' = renderHero(sorted, flat, heroFlatIndex)
                    /\ thumbs' \in {renderTimeline(sorted, flat, tz) : tz \in TzOffsets}
           ELSE /\ spc' = "process"
                /\ UNCHANGED <<DAYS, FLAT, heroFlatIndex, thumbs>>

Pushed(img) == [di |-> di, ii |-> ii + 1, images |-> Append(images, img), processed |-> processed]

\* const raw = await loadContent(), and processDays up to its first image
LoadStep(outcome, body) ==
  LET r == loadContent(outcome, body)
  IN  /\ loadOutcome' = outcome
      /\ IF r.thrown
           THEN /\ spc' = "threw"
                /\ error' = "loadContent"
                /\ UNCHANGED <<raw, di, ii, images, processed, DAYS, FLAT, heroFlatIndex, thumbs>>
           ELSE /\ raw' = r.value
                /\ error' = ""
                /\ Continue(r.value, [di |-> 1, ii |-> 1, images |-> <<>>, processed |-> <<>>])

\* the fetch of /content/index.json ends: with a day list of at most MaxDays
\* days and MaxSiteImages images as its body, or in one of the failures
LoadContent ==
  /\ spc = "load"
  /\ \/ \E imgs \in SeqsUpTo(SiteImageInputs, MaxSiteImages) :
          \E heads \in SeqsUpTo(DayHeads, MaxDays) :
            /\ Len(imgs) > 0 => Len(heads) > 0
            /\ \E sizes \in Dealings(Len(heads), Len(imgs)) :
                 LoadStep("ok", DealImages(heads, sizes, imgs))
     \/ \E outcome \in LoadFailures : LoadStep(outcome, <<>>)
  /\ UNCHANGED <<apiKey, weatherCache, pending, netCount, calls, lastOutcome, buildVars, tagVars, weekVars, lightVars>>

\* one pass of `for (const img of (day.images || []))`, up to the request
\* that fetchWeather sends or, when it sends none, to the next image
ProcessImage ==
  /\ spc = "process"
  /\ LET day == raw[di]
         img == day.images[ii]
         tag == ImageTag(img)
         f   == fetchWeatherStart(apiKey, weatherCache, day.date, DayLat(day), DayLng(day))
     IN  IF tag = "TypeError"
           THEN /\ spc' = "threw"
                /\ error' = "TypeError"
                /\ UNCHANGED <<di, ii, images, processed, DAYS, FLAT, heroFlatIndex, thumbs, pending, netCount, calls>>
         ELSE IF NeedsWeather(img, apiKey)
           THEN IF f.kind = "fetch"
                  THEN /\ spc' = "await"
                       /\ pending' = <<[key |-> cacheKey(day.date, DayLat(day), DayLng(day)),
                                        tag |-> tag]>>
                       /\ netCount' = netCount + 1
                       /\ UNCHANGED <<di, ii, images, processed, DAYS, FLAT, heroFlatIndex, thumbs, calls, error>>
                  ELSE /\ \E suffix \in SuffixChoices(img) :
                            Continue(raw, Pushed(ProcessedImage(day, img, tag, f.value, suffix)))
                       /\ calls' = Append(calls, CallRecord(day, f.how, FALSE, f.value))
                       /\ UNCHANGED <<pending, netCount, error>>
         ELSE /\ \E suffix \in SuffixChoices(img) :
                   Continue(raw, Pushed(ProcessedImage(day, img, tag, img.weather, suffix)))
              /\ UNCHANGED <<pending, netCount, calls, error>>
  /\ UNCHANGED <<apiKey, loadOutcome, raw, weatherCache, lastOutcome, buildVars, tagVars, weekVars, lightVars>>

\* the provider's response arrives: fetchWeather returns, the image is pushed
\* and processDays goes on to the next image
WeatherResponse ==
  /\ spc = "await"
  /\ \E outcome \in {"ok"} \cup FetchFailures :
       \E w \in IF outcome = "ok" THEN WeatherData
                ELSE {[temp |-> 0, description |-> "", wind_speed |-> 0, wind_deg |-> -1]} :
         LET day == raw[di]
             img == day.images[ii]
             r   == fetchWeatherResume(weatherCache, pending[1].key, outcome, w)
         IN  /\ lastOutcome' = outcome
             /\ IF r.thrown
                  THEN /\ spc' = "threw"
                       /\ error' = "weather"
                       /\ UNCHANGED <<di, ii, images, processed, DAYS, FLAT, heroFlatIndex, thumbs, weatherCache, calls>>
                  ELSE /\ weatherCache' = r.cache
                       /\ calls' = Append(calls, CallRecord(day, IF outcome = "ok" THEN "ok" ELSE "failed",
                                                             TRUE, r.result))
                       /\ \E suffix \in SuffixChoices(img) :
                            Continue(raw, Pushed(ProcessedImage(day, img, pending[1].tag,
                                                                r.result, suffix)))
                       /\ UNCHANGED error
  /\ pending' = <<>>
  /\ UNCHANGED <<apiKey, loadOutcome, raw, netCount, buildVars, tagVars, weekVars, lightVars>>

NextSite == LoadContent \/ ProcessImage \/ WeatherResponse

SpecSite == InitSite /\ [][NextSite]_vars

----------------------------------------------------------------------------
(* site.js : lightbox *)

MathMax(a, b) == IF a >= b THEN a ELSE b
MathMin(a, b) == IF a <= b THEN a ELSE b

\* openLightbox with idx taken as it comes, without the clamp
openLightbox_NoClamp(idx, flat) == idx

\* openLightbox: the value it leaves in currentFlatIndex
openLightbox(idx, flat) == MathMax(0, MathMin(idx, Len(flat) - 1))

\* stepLightbox: the value it leaves in currentFlatIndex
stepLightbox(cur, dir, flat) ==
  IF cur + dir < 0 \/ cur + dir >= Len(flat) THEN cur ELSE cur + dir

MaxFlat == 3      \* images in the archive the lightbox is used on

\* the indices openLightbox is called with: -1, every position, and two
\* behind the end
IdxInputs == -1..(MaxFlat + 1)

KeyInputs == {"ArrowLeft", "ArrowRight", "Escape", "Enter"}

\* a day of n images that have their id and their weather, the first at 05:47
\* and the others a minute apart
LightboxDay(date, n, hero, k) ==
  [date |-> date, is_hero |-> hero, hero_index |-> k, location |-> "Torrey Pines",
   lat |-> 329184, lng |-> -1172536,
   images |-> [i \in 1..n |-> [DemoImage("x", 5, 46 + i, "58F . Clear", "")
                                 EXCEPT !.id = <<date, i>>]]]

\* what processDays returns for days on which it has no weather to look up
ProcessedDays(days) ==
  [d \in 1..Len(days) |->
     [days[d] EXCEPT !.images =
        [i \in 1..Len(days[d].images) |->
           ProcessedImage(days[d], days[d].images[i], ImageTag(days[d].images[i]),
                          days[d].images[i].weather, "")]]]

\* the page after init has completed on an archive of at most MaxFlat images
\* in two days, the older of which may carry the hero flags
InitLightbox ==
  /\ \E a \in 0..MaxFlat : \E b \in 0..(MaxFlat - a) :
       \E hero \in BOOLEAN : \E k \in IF hero THEN {-1, 0, 1, MaxFlat} ELSE {-1} :
         /\ raw = IF a + b = 0 THEN <<>>
                  ELSE <<LightboxDay(Date0613, b, hero, k), LightboxDay(Date0614, a, FALSE, -1)>>
         /\ processed = ProcessedDays(raw)
         /\ DAYS = SortDays(processed)
         /\ FLAT = Flatten(DAYS)
         /\ heroFlatIndex = renderHero(DAYS, FLAT, 0)
         /\ thumbs \in {renderTimeline(DAYS, FLAT, tz) : tz \in TzOffsets}
  /\ apiKey = ""
  /\ spc = "done"
  /\ loadOutcome = "ok"
  /\ di = Len(raw) + 1
  /\ ii = 1
  /\ images = <<>>
  /\ weatherCache = <<>>
  /\ pending = <<>>
  /\ netCount = 0
  /\ calls = <<>>
  /\ lastOutcome = "none"
  /\ error = ""
  /\ IdleBuild
  /\ IdleTag
  /\ IdleWeek
  /\ IdleLight

\* openLightbox(idx)
OpenLightbox(idx) ==
  /\ currentFlatIndex' = openLightbox(idx, FLAT)
  /\ lbOpen' = TRUE
  /\ lbCall' = [op |-> "open", dir |-> 0, before |-> currentFlatIndex]

\* a call of openLightbox with an index of its caller's choosing
OpenAt ==
  /\ spc = "done"
  /\ \E idx \in IdxInputs : OpenLightbox(idx)
  /\ UNCHANGED <<buildVars, tagVars, siteVars, weekVars>>

\* a click on a thumbnail: openLightbox(flatIdx)
ThumbClick ==
  /\ spc = "done"
  /\ \E t \in 1..Len(thumbs) : OpenLightbox(thumbs[t].flatIdx)
  /\ UNCHANGED <<buildVars, tagVars, siteVars, weekVars>>

\* openLightboxFromHero
OpenLightboxFromHero ==
  /\ spc = "done"
  /\ OpenLightbox(heroFlatIndex)
  /\ UNCHANGED <<buildVars, tagVars, siteVars, weekVars>>

\* stepLightbox(dir), as the previous and next buttons call it
StepLightbox ==
  /\ spc = "done"
  /\ \E dir \in {-1, 1} :
       /\ currentFlatIndex' = stepLightbox(currentFlatIndex, dir, FLAT)
       /\ lbCall' = [op |-> "step", dir |-> dir, before |-> currentFlatIndex]
  /\ UNCHANGED <<lbOpen, buildVars, tagVars, siteVars, weekVars>>

\* closeLightbox
CloseLightbox ==
  /\ spc = "done"
  /\ lbOpen' = FALSE
  /\ lbCall' = [op |-> "close", dir |-> 0, before |-> currentFlatIndex]
  /\ UNCHANGED <<currentFlatIndex, buildVars, tagVars, siteVars, weekVars>>

\* the keydown handler: nothing while the lightbox is closed, the arrows
\* step, Escape closes
Keydown ==
  /\ spc = "done"
  /\ \E key \in KeyInputs :
       LET dir == IF ~lbOpen THEN 0
                  ELSE IF key = "ArrowLeft" THEN -1
                  ELSE IF key = "ArrowRight" THEN 1
                  ELSE 0
       IN  /\ currentFlatIndex' = IF dir = 0 THEN currentFlatIndex
                                  ELSE stepLightbox(currentFlatIndex, dir, FLAT)
           /\ lbOpen' = IF lbOpen /\ key = "Escape" THEN FALSE ELSE lbOpen
           /\ lbCall' = [op |-> "keydown", dir |-> dir, before |-> currentFlatIndex]
  /\ UNCHANGED <<buildVars, tagVars, siteVars, weekVars>>

NextLightbox ==
  OpenAt \/ ThumbClick \/ OpenLightboxFromHero \/ StepLightbox \/ CloseLightbox \/ Keydown

SpecLightbox == InitLightbox /\ [][NextLightbox]_vars

----------------------------------------------------------------------------
(* Aggregator properties *)

\* the files the run took in: read, and not skipped with a warning
Accepted == {i \in 1..Len(files) : i \notin warnings}

\* the image objects a source file holds, by its shape
FileImages(f) == IF TruthyStr(f.src) THEN <<SidecarImage(f)>> ELSE f.images

OutputDaysOf(date) == {d \in 1..Len(output) : output[d].date = date}

Occurrences(imgs, src) == {k \in 1..Len(imgs) : imgs[k].src = src}

ImageCount(fs) == Cardinality({<<i, k>> \in fs \X (0..MaxImages + 1) :
                                 k \in 1..Len(FileImages(files[i]))})

RECURSIVE SumImages(_)
SumImages(days) ==
  IF days = <<>> THEN 0 ELSE Len(Head(days).images) + SumImages(Tail(days))

\* C1: once the output is written it has exactly one DayRecord for each date
\* of an accepted file and no other; every image of every accepted file is in
\* the record of its date exactly once, with its time, and nothing else is.
C1_OneDayPerDateAllImages ==
  bpc = "written" =>
    /\ \A i \in Accepted : Cardinality(OutputDaysOf(files[i].date)) = 1
    /\ \A d \in 1..Len(output) : \E i \in Accepted : files[i].date = output[d].date
    /\ \A i \in Accepted : \A k \in 1..Len(FileImages(files[i])) :
          LET img  == FileImages(files[i])[k]
              day  == output[CHOOSE d \in OutputDaysOf(files[i].date) : TRUE]
              hits == Occurrences(day.images, img.src)
          IN  /\ Cardinality(hits) = 1
              /\ \A h \in hits : day.images[h] = normalizeImage(img)
    /\ SumImages(output) = ImageCount(Accepted)

\* two accepted files of different shapes share a date and both brought images
C1_Witness ==
  /\ bpc = "written"
  /\ \E i, j \in Accepted :
        /\ i # j
        /\ files[i].date = files[j].date
        /\ TruthyStr(files[i].src)
        /\ files[j].isArray /\ Len(files[j].images) = MaxImages
        /\ Len(output) = 1 /\ Len(output[1].images) = 1 + MaxImages

TimeLeq(a, b) == StrLeq(OrEmpty(a.time), OrEmpty(b.time))

WellFormedTime(img) == ~Truthy(img.time) \/ IsHHMM(img.time)

\* C2 as stated: in every DayRecord of the output every adjacent pair of
\* images satisfies images[i].time <= images[i+1].time, a missing time being ''.
C2_AsStated ==
  bpc = "written" =>
    \A d \in 1..Len(output) : \A k \in 1..(Len(output[d].images) - 1) :
      TimeLeq(output[d].images[k], output[d].images[k + 1])

\* C2 amended: the same for every adjacent pair of images whose times are
\* each missing or of the form HH:MM.
C2_SortedWhenWellFormed ==
  bpc = "written" =>
    \A d \in 1..Len(output) : \A k \in 1..(Len(output[d].images) - 1) :
      (WellFormedTime(output[d].images[k]) /\ WellFormedTime(output[d].images[k + 1]))
        => TimeLeq(output[d].images[k], output[d].images[k + 1])

\* a day whose images were read as 05:47 then (missing), and written with
\* the image without a time first
C2_Witness ==
  /\ bpc = "written"
  /\ \E d \in 1..Len(dayMap) :
        /\ Len(dayMap[d].images) = 2
        /\ dayMap[d].images[1].time = Time0547
        /\ dayMap[d].images[2].time = Undefined
        /\ \E o \in 1..Len(output) :
              /\ output[o].date = dayMap[d].date
              /\ output[o].images[1].time = Undefined
              /\ output[o].images[2].time = Time0547

\* C3: the DayRecords of the output are in descending order of date.
C3_DaysDescending ==
  bpc = "written" =>
    \A d \in 1..(Len(output) - 1) : StrLeq(output[d + 1].date, output[d].date)

\* the older day was read first and is written last
C3_Witness ==
  /\ bpc = "written"
  /\ Len(dayMap) = 2 /\ Len(output) = 2
  /\ dayMap[1].date = Date0613 /\ dayMap[2].date = Date0614
  /\ output[1].date = Date0614 /\ output[2].date = Date0613

\* a file that is not JSON or has no date
IsBadFile(f) == ~f.parsed \/ ~Truthy(f.date)

RECURSIVE FoldFiles(_, _)
FoldFiles(dm, fs) ==
  IF fs = <<>> THEN dm ELSE FoldFiles(FileLoopBody(dm, Head(fs)).dayMap, Tail(fs))

\* what the script writes when content/days holds the files fs
BuildFrom(fs) == SortedDays(FoldFiles(<<>>, fs))

\* C4: no file makes the run stop; every file that is not JSON or has no
\* date is skipped with a warning, and the output written is the output of a
\* run over the other files alone.
C4_BadFileSkipped ==
  /\ bpc # "aborted"
  /\ (bpc = "written" /\ \E i \in 1..Len(files) : IsBadFile(files[i])) =>
       /\ \A i \in 1..Len(files) : IsBadFile(files[i]) => i \in warnings
       /\ output = BuildFrom(SelectSeq(files, LAMBDA f : ~IsBadFile(f)))

\* an unparseable file was read before a valid one, whose day is in the output
C4_Witness ==
  /\ bpc = "written"
  /\ Len(files) = 2
  /\ ~files[1].parsed
  /\ 2 \in Accepted
  /\ warnings = {1}
  /\ Len(output) = 1 /\ Len(output[1].images) >= 1

----------------------------------------------------------------------------
(* Tag properties *)

\* the hour of an HH:MM string, read off its first two characters
HourOf(t) == 10 * DigitVal(t[1]) + DigitVal(t[2])

ExpectedTag(t) == IF HourOf(t) <= 11 THEN "sunrise" ELSE "sunset"

\* C5: for every HH:MM time of an image without a tag, the Aggregator's
\* derivation and getTag both give sunrise when HH <= 11 and sunset otherwise
\* (so they agree), and 05:47, 11:59 give sunrise, 12:00, 20:11 sunset.
C5_TagByHour ==
  IsHHMM(tagImage.time) =>
    /\ (tagBuilt # "pending" /\ tagImage.tag = "") => tagBuilt = ExpectedTag(tagImage.time)
    /\ tagGot # "pending" => tagGot = ExpectedTag(tagImage.time)
    /\ (tagImage.time \in {FormatHHMM(5, 47), FormatHHMM(11, 59)} /\ tagGot # "pending")
         => tagGot = "sunrise"
    /\ (tagImage.time \in {FormatHHMM(12, 0), FormatHHMM(20, 11)} /\ tagGot # "pending")
         => tagGot = "sunset"

\* both functions were applied to 11:59 without a tag, and to 12:00
C5_Witness ==
  /\ tagImage.tag = ""
  /\ \/ tagImage.time = FormatHHMM(11, 59) /\ tagBuilt = "sunrise" /\ tagGot = "sunrise"
     \/ tagImage.time = FormatHHMM(12, 0) /\ tagBuilt = "sunset" /\ tagGot = "sunset"

\* C6 as stated: no file stops the run, and in the written output every
\* image that came without a tag and whose time is missing or not of the
\* form HH:MM has the tag sunrise.
C6_AsStated ==
  /\ bpc # "aborted"
  /\ bpc = "written" =>
       \A i \in Accepted : \A k \in 1..Len(FileImages(files[i])) :
         LET img == FileImages(files[i])[k]
         IN  (~TruthyStr(img.tag) /\ ~IsHHMM(img.time)) =>
               \A d \in 1..Len(output) : \A o \in 1..Len(output[d].images) :
                 output[d].images[o].src = img.src => output[d].images[o].tag = "sunrise"

----------------------------------------------------------------------------
(* Content Processor properties *)

SameCacheCell(a, b) ==
  /\ a.date = b.date
  /\ RoundTimes10(a.lat) = RoundTimes10(b.lat)
  /\ RoundTimes10(a.lng) = RoundTimes10(b.lng)

\* C7 as stated: of two fetchWeather calls with the same date and with lat
\* and lng rounding to the same tenth, at most one sent a request, and the
\* second returned what the first returned.
C7_AsStated ==
  \A i, j \in 1..Len(calls) :
    (i < j /\ SameCacheCell(calls[i], calls[j])) =>
      /\ ~(calls[i].requested /\ calls[j].requested)
      /\ calls[j].result = calls[i].result

\* C7 amended: of two such calls, if the first resolved to a weather string,
\* the second sent no request and returned that same string.
C7_CachedAfterSuccess ==
  \A i, j \in 1..Len(calls) :
    (i < j /\ SameCacheCell(calls[i], calls[j]) /\ calls[i].result # Null) =>
      /\ ~calls[j].requested
      /\ calls[j].result = calls[i].result

\* two calls for one date from coordinates that differ and round alike: the
\* first was answered by the provider, the second from the cache
C7_Witness ==
  \E i, j \in 1..Len(calls) :
    /\ i < j
    /\ SameCacheCell(calls[i], calls[j])
    /\ calls[i].lat # calls[j].lat
    /\ calls[i].requested /\ calls[i].result # Null
    /\ ~calls[j].requested /\ calls[j].result = calls[i].result
    /\ netCount = 1

\* the image processDays pushed for image k of day d of raw
PushedImage(d, k) == IF d <= Len(processed) THEN processed[d].images[k] ELSE images[k]

Requested == {i \in 1..Len(calls) : calls[i].requested}

\* C8: no failure of a weather request leaves fetchWeather or ends init; a
\* call whose request threw, got a status that is not ok, or got no data point
\* resolved to null, the image it was made for has the placeholder as its
\* weather, and each call sent one request at most.
C8_FailureResolvesToNull ==
  /\ error # "weather"
  /\ netCount = Cardinality(Requested) + Len(pending)
  /\ \A i \in 1..Len(calls) :
        calls[i].how = "failed" =>
          /\ calls[i].result = Null
          /\ PushedImage(calls[i].di, calls[i].ii).weather = Placeholder
  /\ (spc # "await" /\ lastOutcome \in FetchFailures) =>
        /\ Requested # {}
        /\ calls[CHOOSE i \in Requested : \A j \in Requested : j <= i].how = "failed"

\* init has completed after both requests it sent had failed
C8_Witness ==
  /\ spc = "done"
  /\ Len(calls) = 2
  /\ calls[1].how = "failed" /\ calls[2].how = "failed"
  /\ netCount = 2
  /\ lastOutcome \in FetchFailures
  /\ \A i \in 1..Len(FLAT) : FLAT[i].weather = Placeholder

\* C9: when the fetch of the build artifact fails, loadContent resolves to
\* the demo dataset and throws nothing, and the day list init ends with has
\* the 3 days of the demo dataset.
C9_FallbackToDemo ==
  loadOutcome \in LoadFailures =>
    /\ spc # "threw"
    /\ raw = getDemoData
    /\ spc = "done" => (Len(DAYS) = Len(getDemoData) /\ Len(DAYS) = 3)

\* init has completed on the demo dataset after the artifact came with a
\* status that is not ok
C9_Witness ==
  /\ loadOutcome = "notOk"
  /\ spc = "done"
  /\ Len(DAYS) = 3
  /\ Len(FLAT) = 16

\* C10: once init has completed, every element of FLAT has the tag sunrise
\* or sunset and a weather that is not empty.
C10_FlatTaggedAndResolved ==
  spc = "done" =>
    \A i \in 1..Len(FLAT) :
      /\ FLAT[i].tag \in {"sunrise", "sunset"}
      /\ FLAT[i].weather # ""

\* with a key, init has completed on two images that had a time and neither
\* tag nor weather: one request failed, the other was answered
C10_Witness ==
  /\ spc = "done"
  /\ apiKey # ""
  /\ loadOutcome = "ok"
  /\ Len(FLAT) = 2
  /\ \A d \in 1..Len(raw) : \A k \in 1..Len(raw[d].images) :
        raw[d].images[k].tag = "" /\ raw[d].images[k].weather = "" /\ raw[d].images[k].time = Time0547
  /\ \E i, j \in 1..2 : FLAT[i].weather = Placeholder /\ FLAT[j].weather \notin {Placeholder, ""}
  /\ \A i \in 1..2 : FLAT[i].tag = "sunrise"

----------------------------------------------------------------------------
(* Content Processor properties: order of DAYS and FLAT *)

\* the number of images in the days before day d
RECURSIVE ImagesBefore(_, _)
ImagesBefore(days, d) ==
  IF d = 1 THEN 0 ELSE Len(days[d - 1].images) + ImagesBefore(days, d - 1)

\* C11: after initialisation FLAT has as many elements as the days of DAYS
\* have images, DAYS is in descending order of date, and FLAT is the images
\* of the days one after the other, days in the order of DAYS, images in
\* their order within the day.
C11_FlatIsConcatenation ==
  spc = "done" =>
    /\ Len(FLAT) = SumImages(DAYS)
    /\ \A d \in 1..(Len(DAYS) - 1) : StrLeq(DAYS[d + 1].date, DAYS[d].date)
    /\ \A d \in 1..Len(DAYS) : \A k \in 1..Len(DAYS[d].images) :
          FLAT[ImagesBefore(DAYS, d) + k] = DAYS[d].images[k]

\* the loaded list has the older day first, each day has an image, and
\* initialisation has put the newer day and its image first
C11_Witness ==
  /\ spc = "done"
  /\ Len(raw) = 2
  /\ raw[1].date = Date0613 /\ raw[2].date = Date0614
  /\ Len(raw[1].images) = 1 /\ Len(raw[2].images) = 1
  /\ DAYS[1].date = Date0614 /\ DAYS[2].date = Date0613
  /\ Len(FLAT) = 2
  /\ FLAT[1] = DAYS[1].images[1] /\ FLAT[2] = DAYS[2].images[1]
  /\ FLAT[1] # FLAT[2]

\* C12 as stated: in FLAT any two images of the same day are in ascending
\* order of time, whatever the order of the images in the loaded day list
\* (FLAT holds the images of a day of DAYS next to one another, in the day's order).
C12_AsStated ==
  spc = "done" =>
    \A d \in 1..Len(DAYS) : \A k \in 1..(Len(DAYS[d].images) - 1) :
      TimeLeq(FLAT[ImagesBefore(DAYS, d) + k], FLAT[ImagesBefore(DAYS, d) + k + 1])

----------------------------------------------------------------------------
(* Week grouping properties *)

\* the places (bucket, position in the bucket) at which day i of the input is held
BucketPlaces(weeks, i) ==
  {<<w, n>> \in (1..Len(weeks)) \X (1..MaxWeekDays + 1) :
     n <= Len(weeks[w].days) /\ weeks[w].days[n] = i}

RECURSIVE SumDays(_)
SumDays(weeks) == IF weeks = <<>> THEN 0 ELSE Len(Head(weeks).days) + SumDays(Tail(weeks))

\* C13: groupByWeek partitions its input: every day of the input is in exactly
\* one bucket, once, and the buckets hold nothing else; no bucket is empty;
\* the buckets are in strictly descending order of their week key; within a
\* bucket the days are in the order they had in the input.
C13_WeeksPartitionDays ==
  wkpc = "grouped" =>
    /\ \A i \in 1..Len(wkDays) : Cardinality(BucketPlaces(wkWeeks, i)) = 1
    /\ SumDays(wkWeeks) = Len(wkDays)
    /\ \A w \in 1..Len(wkWeeks) : wkWeeks[w].days # <<>>
    /\ \A w \in 1..(Len(wkWeeks) - 1) :
          /\ StrLeq(wkWeeks[w + 1].sunday, wkWeeks[w].sunday)
          /\ wkWeeks[w + 1].sunday # wkWeeks[w].sunday
    /\ \A w \in 1..Len(wkWeeks) : \A n \in 1..(Len(wkWeeks[w].days) - 1) :
          wkWeeks[w].days[n] < wkWeeks[w].days[n + 1]

\* three days handed over as 8 June, 15 June, 14 June: the week of 15 June
\* comes out first, and 8 and 14 June share the second bucket in input order
C13_Witness ==
  /\ wkpc = "grouped"
  /\ Len(wkDays) = 3
  /\ wkDays[1].date = FormatDate(<<2025, 6, 8>>)
  /\ wkDays[2].date = FormatDate(<<2025, 6, 15>>)
  /\ wkDays[3].date = FormatDate(<<2025, 6, 14>>)
  /\ Len(wkWeeks) = 2
  /\ wkWeeks[1].days = <<2>>
  /\ wkWeeks[2].days = <<1, 3>>

\* the day number of a date string YYYY-MM-DD
DayNumber(dateStr) ==
  LET parts == SplitDash(dateStr)
  IN  DaysFromCivil(ToNumber(parts[1]), ToNumber(parts[2]), ToNumber(parts[3]))

\* s is the date of the latest Sunday on or before the date d
LatestSundayOnOrBefore(s, d) ==
  /\ GetDay(DayNumber(s)) = 0
  /\ DayNumber(s) <= DayNumber(d)
  /\ DayNumber(d) - DayNumber(s) <= 6

\* C14 as stated: for every date string and every UTC offset of the runtime,
\* getWeekSunday returns the date of the latest Sunday on or before the date
\* (so a Sunday maps to itself and the Saturday after it to that Sunday).
C14_AsStated ==
  wkDate # <<>> => LatestSundayOnOrBefore(wkSunday, wkDate)

----------------------------------------------------------------------------
(* Content Processor properties: location, hero, tag, requests, thumbnails *)

\* C15 as stated: in the days processDays has processed, an image that has
\* a location of its own has kept it, and an image without has the location
\* of its day, or 'San Diego, CA' when the day has none.
C15_AsStated ==
  \A d \in 1..Len(processed) : \A k \in 1..Len(processed[d].images) :
    processed[d].images[k].location =
      IF TruthyStr(raw[d].images[k].location) THEN raw[d].images[k].location
      ELSE IF TruthyStr(raw[d].location) THEN raw[d].location
      ELSE DefaultLocation

\* C16 as stated, at its first step: when the Aggregator has taken in a
\* per-day file with is_hero true and images, renderHero finds a hero day in
\* what was written, and it is the day of that file (processDays copies the
\* properties of each day it loads, so DAYS has the flag where the artifact has it).
C16_AsStated ==
  bpc = "written" =>
    \A i \in Accepted :
      (files[i].isArray /\ files[i].is_hero /\ files[i].images # <<>>) =>
        /\ FindHeroDay(output) # 0
        /\ output[FindHeroDay(output)].date = files[i].date

\* C17: a tag the source data supplies is never overridden: for an image with
\* a non-empty tag, normalizeImage and processDays both give that tag, also
\* when the time alone would give the other one; only an image without a tag
\* gets the tag derived from its time.
C17_TagNeverOverridden ==
  /\ tagImage.tag # "" =>
       /\ tagBuilt # "pending" => tagBuilt = tagImage.tag
       /\ tagSite # "pending" => tagSite = tagImage.tag
  /\ (tagImage.tag = "" /\ IsHHMM(tagImage.time)) =>
       /\ tagBuilt # "pending" => tagBuilt = ExpectedTag(tagImage.time)
       /\ tagSite # "pending" => tagSite = ExpectedTag(tagImage.time)

\* an image of 05:47 tagged sunset has come through both as sunset
C17_Witness ==
  /\ tagImage.time = Time0547
  /\ tagImage.tag = "sunset"
  /\ tagBuilt = "sunset"
  /\ tagSite = "sunset"
  /\ deriveTag(tagImage.time) = "sunrise"

\* the image at place k of day d of the loaded list has no weather of its own
Lacking(d, k) == ~TruthyStr(raw[d].images[k].weather)

\* the places of the images processDays has pushed so far
PushedPlaces ==
  {<<d, k>> \in (1..Len(raw)) \X (1..MaxSiteImages + 1) :
     \/ d <= Len(processed) /\ k <= Len(processed[d].images)
     \/ d = Len(processed) + 1 /\ k <= Len(images)}

\* C18: processDays sends no request for an image that has a weather, and at
\* most one for an image that has none; without a provider key it sends no
\* request at all and every image without a weather gets the placeholder.
C18_RequestsOnlyWhenNeeded ==
  /\ \A i \in 1..Len(calls) : Lacking(calls[i].di, calls[i].ii)
  /\ spc = "await" => Lacking(di, ii)
  /\ \A i, j \in Requested :
        i # j => <<calls[i].di, calls[i].ii>> # <<calls[j].di, calls[j].ii>>
  /\ spc = "await" => \A i \in Requested : <<calls[i].di, calls[i].ii>> # <<di, ii>>
  /\ netCount = Cardinality(Requested) + Len(pending)
  /\ apiKey = "" =>
       /\ netCount = 0
       /\ calls = <<>>
       /\ \A p \in PushedPlaces :
             Lacking(p[1], p[2]) => PushedImage(p[1], p[2]).weather = Placeholder

\* with a key, init has completed on an image that had its weather and one
\* that had none: one request was sent, for the second
C18_Witness ==
  /\ spc = "done"
  /\ apiKey # ""
  /\ Len(raw) = 1 /\ Len(raw[1].images) = 2
  /\ ~Lacking(1, 1) /\ Lacking(1, 2)
  /\ netCount = 1
  /\ Len(calls) = 1 /\ calls[1].requested /\ calls[1].ii = 2
  /\ DAYS[1].images[1].weather = raw[1].images[1].weather

\* place <<d, k>> comes before place <<e, n>> in day order, then image order
PlaceBefore(d, k, e, n) == d < e \/ (d = e /\ k < n)

\* at most one request is in flight, and only while processDays waits for
\* it; the fetchWeather calls were made in day order then image order, each
\* after the one before it had returned, and the request in flight is for an
\* image behind all of them; the cache holds results of answered requests only
SequentialRequests ==
  /\ Len(pending) <= 1
  /\ (Len(pending) = 1) <=> (spc = "await")
  /\ netCount = Cardinality(Requested) + Len(pending)
  /\ \A i, j \in 1..Len(calls) :
        i < j => PlaceBefore(calls[i].di, calls[i].ii, calls[j].di, calls[j].ii)
  /\ spc = "await" =>
        \A i \in 1..Len(calls) : PlaceBefore(calls[i].di, calls[i].ii, di, ii)
  /\ \A k \in DOMAIN weatherCache :
        \E i \in Requested :
          /\ calls[i].how = "ok"
          /\ cacheKey(calls[i].date, calls[i].lat, calls[i].lng) = k
  /\ \A i \in Requested :
        calls[i].how = "ok" =>
          cacheKey(calls[i].date, calls[i].lat, calls[i].lng) \in DOMAIN weatherCache

\* the cache changes only when the request in flight is answered, and then
\* by the entry of that request's key alone
CacheWrittenByPassOnly ==
  weatherCache' # weatherCache =>
    /\ spc = "await" /\ spc' # "await"
    /\ DOMAIN weatherCache' = (DOMAIN weatherCache) \cup {pending[1].key}
    /\ \A k \in (DOMAIN weatherCache) \ {pending[1].key} : weatherCache'[k] = weatherCache[k]

\* C19: enrichment is strictly sequential: at every moment of a processDays
\* pass at most one weather request is in flight, the request for the next
\* image is sent only after the previous one has resolved, requests go out in
\* day order then image order, and only the pass writes the weather cache.
C19_Sequential == []SequentialRequests /\ [][CacheWrittenByPassOnly]_vars

\* the second request of a pass is in flight, the first has been answered and
\* its result is in the cache
C19_Witness ==
  /\ spc = "await"
  /\ netCount = 2
  /\ Len(calls) = 1 /\ calls[1].requested /\ calls[1].how = "ok"
  /\ Len(pending) = 1
  /\ Cardinality(DOMAIN weatherCache) = 1
  /\ pending[1].key \notin DOMAIN weatherCache

\* C20 as stated: every thumbnail renderTimeline made captured, as the flatIdx
\* of its click handler, the position in FLAT of the very image it was made
\* for, whether the image's id was supplied or generated.
C20_AsStated ==
  spc = "done" =>
    \A t \in 1..Len(thumbs) :
      thumbs[t].flatIdx = ImagesBefore(DAYS, thumbs[t].day) + thumbs[t].place - 1

----------------------------------------------------------------------------
(* Lightbox properties *)

\* C21: while FLAT is not empty, after any sequence of openLightbox (any
\* integer index, -1 included), openLightboxFromHero and stepLightbox calls
\* currentFlatIndex is a position of FLAT (0-based); a step that would pass
\* either end has left it as it was, every other step has moved it by
\* exactly the step.
C21_IndexWithinFlat ==
  FLAT # <<>> =>
    /\ 0 <= currentFlatIndex /\ currentFlatIndex < Len(FLAT)
    /\ lbCall.dir # 0 =>
         IF lbCall.before + lbCall.dir \in 0..(Len(FLAT) - 1)
           THEN currentFlatIndex = lbCall.before + lbCall.dir
           ELSE currentFlatIndex = lbCall.before

\* on an archive of MaxFlat images the lightbox stands on the last one and a
\* step forward has just been asked for and left it there
C21_Witness ==
  /\ Len(FLAT) = MaxFlat
  /\ lbOpen
  /\ lbCall.op = "step" /\ lbCall.dir = 1
  /\ lbCall.before = MaxFlat - 1
  /\ currentFlatIndex = MaxFlat - 1

====
